---- MODULE Spec2Model ----
(***************************************************************************)
(* Model of the OTA update orchestrator (ota_mechanism/ota_updater.py):    *)
(* the continuous scheduler run_continuous_updates, the update cycle       *)
(* update_if_available and the operations they sequence on the app         *)
(* directory, the backup directory, the supervised child and the           *)
(* telemetry sink.                                                         *)
(***************************************************************************)
EXTENDS Integers, Sequences, FiniteSets, TLC

(***************************************************************************)
(* Bounds                                                                  *)
(***************************************************************************)
\* number of scheduler iterations explored
MaxCycles == 1
\* number of children the supervisor taken alone may launch
MaxPids == 2
\* number of components of the version strings compared
MaxLen == 3
\* number of scheduler iterations of the runs of TwoCycleSpec
Iterations == 2

(***************************************************************************)
(* Values                                                                  *)
(***************************************************************************)
\* A version string is the sequence of its dotted components; the empty
\* sequence stands for a string that int() cannot parse.
V100 == <<1, 0, 0>>
V110 == <<1, 1, 0>>
BadVersion == <<>>
DefaultVersion == <<0, 0, 0>>

\* Optional[Dict]: the parsed version.json, or None
None == [present |-> FALSE, parts |-> <<>>]
Some(v) == [present |-> TRUE, parts |-> v]

\* The remote "application" tree as the content-listing call returns it.
Listing ==
  [p \in {"application", "application/lib", "application/lib/sub"} |->
     CASE p = "application" ->
            << [type |-> "file", path |-> "application/app.py"],
               [type |-> "dir",  path |-> "application/lib"],
               [type |-> "file", path |-> "application/version.json"] >>
       [] p = "application/lib" ->
            << [type |-> "file", path |-> "application/lib/mod.py"],
               [type |-> "dir",  path |-> "application/lib/sub"] >>
       [] p = "application/lib/sub" ->
            << [type |-> "file", path |-> "application/lib/sub/deep.py"] >>]

RemoteFiles == {"application/app.py", "application/lib/mod.py",
                "application/lib/sub/deep.py", "application/version.json"}

\* A directory: absent, or a set of <<remote path of the file, version it
\* was fetched at>>.
Absent == [exists |-> FALSE, files |-> {}]
Dir(fs) == [exists |-> TRUE, files |-> fs]
Artifact(v) == {<<f, v>> : f \in RemoteFiles}

HasFile(d, f) == d.exists /\ \E e \in d.files : e[1] = f

(***************************************************************************)
(* Leaf operations                                                         *)
(***************************************************************************)
_get_current_version(app) ==
  IF HasFile(app, "application/version.json")
    THEN Some((CHOOSE e \in app.files : e[1] = "application/version.json")[2])
    ELSE None

\* mutant: a failed request yields the default descriptor "0.0.0"
_get_latest_version_Default(remote, fetchOk) ==
  IF fetchOk THEN Some(remote) ELSE Some(DefaultVersion)

\* the fetch either fails (None) or yields the remote version.json
_get_latest_version(remote, fetchOk) ==
  IF fetchOk THEN Some(remote) ELSE None

\* current_version.get("version", "0.0.0") if current_version else "0.0.0"
VersionOr000(d) == IF d.present THEN d.parts ELSE DefaultVersion

\* mutant: the comparison stops at the end of the shorter version
RECURSIVE CompareParts_Shorter(_, _, _)
CompareParts_Shorter(current_parts, latest_parts, i) ==
  LET n == IF Len(current_parts) < Len(latest_parts)
             THEN Len(current_parts) ELSE Len(latest_parts)
  IN IF i > n THEN "False"
     ELSE IF latest_parts[i] > current_parts[i] THEN "True"
     ELSE IF current_parts[i] > latest_parts[i] THEN "False"
     ELSE CompareParts_Shorter(current_parts, latest_parts, i + 1)

RECURSIVE CompareParts(_, _, _)
CompareParts(current_parts, latest_parts, i) ==
  LET n == IF Len(current_parts) > Len(latest_parts)
             THEN Len(current_parts) ELSE Len(latest_parts)
      curr == IF i <= Len(current_parts) THEN current_parts[i] ELSE 0
      latest == IF i <= Len(latest_parts) THEN latest_parts[i] ELSE 0
  IN IF i > n THEN "False"
     ELSE IF latest > curr THEN "True"
     ELSE IF curr > latest THEN "False"
     ELSE CompareParts(current_parts, latest_parts, i + 1)

\* mutant: without a current descriptor there is no update
check_for_updates_NeedsCurrent(current_version, latest_version) ==
  IF ~latest_version.present THEN "False"
  ELSE IF ~current_version.present THEN "False"
  ELSE IF current_version.parts = BadVersion \/ latest_version.parts = BadVersion
    THEN "raise"
  ELSE CompareParts(current_version.parts, latest_version.parts, 1)

\* mutant: a remote version equal to the deployed one counts as an update
check_for_updates_NotOlder(current_version, latest_version) ==
  IF ~latest_version.present THEN "False"
  ELSE IF ~current_version.present THEN "True"
  ELSE IF current_version.parts = BadVersion \/ latest_version.parts = BadVersion
    THEN "raise"
  ELSE IF current_version.parts = latest_version.parts THEN "True"
  ELSE CompareParts(current_version.parts, latest_version.parts, 1)

\* "True" / "False", or "raise" when int() rejects a component
check_for_updates(current_version, latest_version) ==
  IF ~latest_version.present THEN "False"
  ELSE IF ~current_version.present THEN "True"
  ELSE IF current_version.parts = BadVersion \/ latest_version.parts = BadVersion
    THEN "raise"
  ELSE CompareParts(current_version.parts, latest_version.parts, 1)

(***************************************************************************)
(* Version strings: a text is the sequence of its characters               *)
(***************************************************************************)
Digits == << "0", "1", "2", "3", "4", "5", "6", "7", "8", "9" >>
IsDigit(c) == \E i \in 1..10 : Digits[i] = c
DigitValue(c) == (CHOOSE i \in 1..10 : Digits[i] = c) - 1

\* the decimal writing of a number, and a version written as a dotted text
RECURSIVE DecimalOf(_)
DecimalOf(n) ==
  IF n < 10 THEN << Digits[n + 1] >>
  ELSE DecimalOf(n \div 10) \o << Digits[(n % 10) + 1] >>

RECURSIVE Dotted(_)
Dotted(parts) ==
  IF Len(parts) = 1 THEN DecimalOf(parts[1])
  ELSE DecimalOf(parts[1]) \o << "." >> \o Dotted(Tail(parts))

\* v.split('.')
RECURSIVE SplitDots(_)
SplitDots(text) ==
  IF \A i \in 1..Len(text) : text[i] # "." THEN << text >>
  ELSE LET k == CHOOSE i \in 1..Len(text) :
                  text[i] = "." /\ \A j \in 1..(i - 1) : text[j] # "."
       IN << SubSeq(text, 1, k - 1) >> \o SplitDots(SubSeq(text, k + 1, Len(text)))

RECURSIVE IntValue(_)
IntValue(x) ==
  IF x = <<>> THEN 0
  ELSE 10 * IntValue(SubSeq(x, 1, Len(x) - 1)) + DigitValue(x[Len(x)])

\* mutant: only the first digit of a component is read
IntOf_FirstDigit(x) ==
  IF x = <<>> \/ \E i \in 1..Len(x) : ~IsDigit(x[i]) THEN -1
  ELSE DigitValue(x[1])

\* int(x) of a component; -1 stands for ValueError
IntOf(x) ==
  IF x = <<>> \/ \E i \in 1..Len(x) : ~IsDigit(x[i]) THEN -1
  ELSE IntValue(x)

\* [int(x) for x in v.split('.')], lines 256-257; BadVersion when int raises
ParseVersion(text) ==
  LET comps == SplitDots(text)
      ints == [i \in 1..Len(comps) |-> IntOf(comps[i])]
  IN IF \E i \in 1..Len(ints) : ints[i] = -1 THEN BadVersion ELSE ints

\* a descriptor that carries its version as text
Text(t) == [present |-> TRUE, text |-> t]
TextDescriptor(d) == IF d.present THEN Some(ParseVersion(d.text)) ELSE None

\* check_for_updates on descriptors that carry text
check_for_updates_text(current, latest) ==
  check_for_updates(TextDescriptor(current), TextDescriptor(latest))

\* `failed` holds the remote paths whose request fails; a failed listing
\* yields [].
_list_directory_contents(github_path, failed) ==
  IF github_path \in failed THEN <<>> ELSE Listing[github_path]

\* The loop over the listed items, the same in download_update (lines
\* 197-206) and _download_directory (lines 225-231): files are fetched in
\* listing order into the staging directory, the first failing file ends the
\* loop with False, a subdirectory is descended into and the result of that
\* call is dropped.  `files` is what reached the staging directory.
RECURSIVE FetchItems(_, _, _, _), _download_directory(_, _, _)
FetchItems(contents, i, failed, v) ==
  IF i > Len(contents) THEN [ok |-> TRUE, files |-> {}]
  ELSE LET item == contents[i] IN
    IF item.type = "file"
      THEN IF item.path \in failed
             THEN [ok |-> FALSE, files |-> {}]
             ELSE LET rest == FetchItems(contents, i + 1, failed, v)
                  IN [ok |-> rest.ok, files |-> {<<item.path, v>>} \cup rest.files]
      ELSE LET sub == _download_directory(item.path, failed, v)
               rest == FetchItems(contents, i + 1, failed, v)
           IN [ok |-> rest.ok, files |-> sub.files \cup rest.files]

_download_directory(github_path, failed, v) ==
  FetchItems(_list_directory_contents(github_path, failed), 1, failed, v)

(***************************************************************************)
(* Operations on the file system and the supervised child                  *)
(***************************************************************************)
\* An entry of backup_path.  backup_path is kept as the sequence of its
\* entries in order of creation time, so max(backups, key=os.path.getctime)
\* is the last one.  temp_download lives in backup_path as well.
BackupEntry(version, fs) == [name |-> "backup", version |-> version, files |-> fs]
TempEntry(fs) == [name |-> "temp_download", version |-> None, files |-> fs]

RemoveTemp(bp) == SelectSeq(bp, LAMBDA e : e.name # "temp_download")

\* the file whose copy fails when a copytree fault is injected
FaultyFile == "application/lib/mod.py"

\* fault: "none", or "copy" (shutil.copytree raises after the target
\* directory was created and the other files were copied)
backup_current_application(app, bp, fault) ==
  IF ~app.exists THEN [ok |-> FALSE, backup_path |-> bp]
  ELSE LET version == _get_current_version(app) IN
    IF fault = "none"
      THEN [ok |-> TRUE,
            backup_path |-> Append(bp, BackupEntry(version, app.files))]
      ELSE [ok |-> FALSE,
            backup_path |-> Append(bp, BackupEntry(version,
                              {e \in app.files : e[1] # FaultyFile}))]

\* backup_dir = max(backups, key=os.path.getctime)
LatestEntry(bp) == bp[Len(bp)]

\* mutant: the app directory is removed only when it is missing app.py, so
\* a complete new tree is left in place and reported as restored
restore_from_backup_KeepsApp(app, bp, fault) ==
  IF bp = <<>> THEN [ok |-> FALSE, app_path |-> app]
  ELSE IF fault = "none"
    THEN [ok |-> TRUE,
          app_path |-> IF HasFile(app, "application/app.py")
                         THEN app ELSE Dir(LatestEntry(bp).files)]
    ELSE [ok |-> FALSE, app_path |-> Absent]

\* fault: "none", or "copy" (the app directory was removed and copytree
\* raises before anything is in place)
restore_from_backup(app, bp, fault) ==
  IF bp = <<>> THEN [ok |-> FALSE, app_path |-> app]
  ELSE IF fault = "none"
    THEN [ok |-> TRUE, app_path |-> Dir(LatestEntry(bp).files)]
    ELSE [ok |-> FALSE, app_path |-> Absent]

\* mutant: the staging directory of an earlier attempt is reused as it is
download_update_KeepsStaging(app, bp, v, failed, moveOk) ==
  LET contents == _list_directory_contents("application", failed)
      temps == SelectSeq(bp, LAMBDA e : e.name = "temp_download")
      left == IF temps = <<>> THEN {} ELSE temps[1].files
  IN
  IF contents = <<>> THEN [ok |-> FALSE, app_path |-> app, backup_path |-> bp]
  ELSE LET got == FetchItems(contents, 1, failed, v)
           files == left \cup got.files
           staged == Append(RemoveTemp(bp), TempEntry(files))
       IN IF ~got.ok
            THEN [ok |-> FALSE, app_path |-> app, backup_path |-> staged]
          ELSE IF ~moveOk
            THEN [ok |-> FALSE, app_path |-> Absent, backup_path |-> staged]
          ELSE [ok |-> TRUE, app_path |-> Dir(files),
                backup_path |-> RemoveTemp(bp)]

\* failed: the remote paths whose request fails; moveOk: shutil.move works
download_update(app, bp, v, failed, moveOk) ==
  LET contents == _list_directory_contents("application", failed) IN
  IF contents = <<>> THEN [ok |-> FALSE, app_path |-> app, backup_path |-> bp]
  ELSE LET got == FetchItems(contents, 1, failed, v)
           staged == Append(RemoveTemp(bp), TempEntry(got.files))
       IN IF ~got.ok
            THEN [ok |-> FALSE, app_path |-> app, backup_path |-> staged]
          ELSE IF ~moveOk
            THEN [ok |-> FALSE, app_path |-> Absent, backup_path |-> staged]
          ELSE [ok |-> TRUE, app_path |-> Dir(got.files),
                backup_path |-> RemoveTemp(bp)]

\* stop_application: terminate, wait, kill on timeout; the handle is cleared
stop_application(proc) == "None"

\* popenOk: subprocess.Popen launches the child
start_application(app, proc, popenOk) ==
  IF ~HasFile(app, "application/app.py")
    THEN [ok |-> FALSE, app_process |-> proc]
  ELSE IF popenOk
    THEN [ok |-> TRUE, app_process |-> "child"]
    ELSE [ok |-> FALSE, app_process |-> stop_application(proc)]

\* healthcheck.py: the critical checks are app_running, endpoint_health and
\* version_file; endpoint is the answer of the app's health endpoint
run_all_checks(app, proc, endpoint) ==
  proc # "None" /\ endpoint /\ HasFile(app, "application/version.json")

\* mutant: the exit code of the probe is not looked at
perform_health_check_IgnoresCode(app, proc, endpoint, probeOk) == probeOk

\* returncode == 0; probeOk is FALSE when the probe times out or fails to run
perform_health_check(app, proc, endpoint, probeOk) ==
  probeOk /\ run_all_checks(app, proc, endpoint)

(***************************************************************************)
(* State                                                                   *)
(***************************************************************************)
VARIABLES
  app_path,        \* the app directory
  backup_path,     \* the entries of the backup directory, oldest first
  app_process,     \* "None" or "child": the tracked child handle
  last_healthy_version,
  db_helper,       \* the telemetry sink: "None", "stores", "returns_false", "raises"
  blobs,           \* the records the sink stored
  remote,          \* the version the remote source serves
  records,         \* the UpdateRecords handed to log_update_to_db, in order
  pc,              \* position in run_continuous_updates / update_if_available
  stage,           \* the failing stage of the rollback in progress
  latest_v,        \* update_if_available's local latest_v
  ret,             \* result of the last update_if_available
  calls,           \* the operations called in this scheduler iteration
  cycle0,          \* the state update_if_available was entered in
  cycles,          \* scheduler iterations started
  prev,            \* what the previous update_if_available did
  sup,             \* the supervisor taken alone: files, handle, processes
  cmp              \* check_for_updates taken alone: descriptors and result

\* the variables of the orchestration
main == << app_path, backup_path, app_process, last_healthy_version, db_helper,
           blobs, remote, records, pc, stage, latest_v, ret, calls, cycle0,
           cycles, prev >>

vars == << main, sup, cmp >>

\* an entry of the call trace; `failed` is the fault input of a download
Call(op, res) == [op |-> op, res |-> res, failed |-> {}]
DownloadCall(res, failed) == [op |-> "download_update", res |-> res, failed |-> failed]
\* check_for_updates with the fault input of its request for the remote
\* version.json
CheckCall(res, fetchOk) ==
  [op |-> "check_for_updates", res |-> res,
   failed |-> IF fetchOk THEN {} ELSE {"application/version.json"}]
Bool(b) == IF b THEN "True" ELSE "False"

Snapshot(mark) ==
  [app_path |-> app_path, backup_path |-> backup_path,
   app_process |-> app_process, nrecords |-> Len(records), mark |-> mark]

RemoteVersions == {V100, V110, BadVersion}
Sinks == {"None", "stores", "returns_false", "raises"}

\* the supervisor and the comparison before any operation on them
SupIdle ==
  [files |-> {}, handle |-> 0, live |-> {}, spawned |-> 0,
   last |-> [op |-> "none", ret |-> "none", steps |-> <<>>,
             outcome |-> "none", code |-> 0,
             before |-> [handle |-> 0, live |-> {}, spawned |-> 0]]]
CmpIdle ==
  [current |-> None, latest |-> None, current_parts |-> <<>>,
   latest_parts |-> <<>>, result |-> "none"]

\* The state after OTAUpdater.__init__: initialize_paths has created the app
\* directory, which holds nothing yet or a deployed 1.0.0.
Constructed ==
  /\ app_path \in {Dir({}), Dir(Artifact(V100))}
  /\ backup_path = <<>>
  /\ app_process = "None"
  /\ last_healthy_version = None
  /\ db_helper \in Sinks
  /\ blobs = <<>>
  /\ remote \in RemoteVersions
  /\ records = <<>>
  /\ pc = "boot"
  /\ stage = "none"
  /\ latest_v = DefaultVersion
  /\ ret = "none"
  /\ calls = <<>>
  /\ cycle0 = Snapshot(0)
  /\ cycles = 0
  /\ prev = [ret |-> "none", nbackup |-> 0]

Init == Constructed /\ sup = SupIdle /\ cmp = CmpIdle

\* the inputs of one download: at most one failing request
DownloadFaults == {{}} \cup {{p} : p \in RemoteFiles \cup {"application"}}

\* log_update_to_db: the record is built and handed to upload_to_blob unless
\* the helper was never initialised; whatever the sink does is swallowed.
\* The blob is named {version}_{time to the second} and uploaded with
\* overwrite=True (azure_db_helper.py line 186): a record of the same version
\* logged within the same second takes the place of the one stored before.
log_update_to_db(version, status, stg, action, sameSecond) ==
  LET rec == [version |-> version, status |-> status, stage |-> stg,
              action |-> action]
      sameName == /\ sameSecond
                  /\ blobs # <<>>
                  /\ blobs[Len(blobs)].version = version
  IN /\ records' = Append(records, rec)
     /\ blobs' = IF db_helper # "stores" THEN blobs
                 ELSE IF sameName THEN [blobs EXCEPT ![Len(blobs)] = rec]
                 ELSE Append(blobs, rec)

(***************************************************************************)
(* run_continuous_updates: start-up                                        *)
(***************************************************************************)
\* lines 447-449: initial download when app.py is missing
Boot ==
  /\ pc = "boot"
  /\ IF HasFile(app_path, "application/app.py")
       THEN UNCHANGED << app_path, backup_path, calls >>
       ELSE \E failed \in DownloadFaults, moveOk \in BOOLEAN :
              LET r == download_update(app_path, backup_path, remote, failed, moveOk)
              IN /\ app_path' = r.app_path
                 /\ backup_path' = r.backup_path
                 /\ calls' = Append(calls, DownloadCall(Bool(r.ok), failed))
  /\ pc' = "boot_start"
  /\ UNCHANGED << app_process, last_healthy_version, db_helper, blobs, remote,
                  records, stage, latest_v, ret, cycle0, cycles, prev, sup, cmp >>

\* line 451
BootStart ==
  /\ pc = "boot_start"
  /\ \E popenOk \in BOOLEAN :
       LET r == start_application(app_path, app_process, popenOk)
       IN /\ app_process' = r.app_process
          /\ calls' = Append(calls, Call("start_application", Bool(r.ok)))
  /\ pc' = "loop"
  /\ UNCHANGED << app_path, backup_path, last_healthy_version, db_helper, blobs,
                  remote, records, stage, latest_v, ret, cycle0, cycles, prev, sup, cmp >>

\* a health probe at the current state; a passing probe records the version
Probe(endpoint, probeOk, healthyPc, unhealthyPc, reset) ==
  LET healthy == perform_health_check(app_path, app_process, endpoint, probeOk)
      current_version == _get_current_version(app_path)
  IN /\ last_healthy_version' =
          IF healthy /\ current_version.present /\ current_version.parts # <<>>
            THEN current_version ELSE last_healthy_version
     /\ calls' = Append(IF reset THEN <<>> ELSE calls,
                        Call("perform_health_check", Bool(healthy)))
     /\ pc' = IF healthy THEN healthyPc ELSE unhealthyPc

Stop(nextPc) ==
  /\ app_process' = stop_application(app_process)
  /\ calls' = Append(calls, Call("stop_application", "None"))
  /\ pc' = nextPc

Restore(fault, nextPc) ==
  LET r == restore_from_backup(app_path, backup_path, fault)
  IN /\ app_path' = r.app_path
     /\ calls' = Append(calls, Call("restore_from_backup", Bool(r.ok)))
     /\ pc' = nextPc

Start(popenOk, okPc, failPc) ==
  LET r == start_application(app_path, app_process, popenOk)
  IN /\ app_process' = r.app_process
     /\ calls' = Append(calls, Call("start_application", Bool(r.ok)))
     /\ pc' = IF r.ok THEN okPc ELSE failPc

(***************************************************************************)
(* run_continuous_updates: the self-heal step of one iteration             *)
(***************************************************************************)
\* line 457, in the first n iterations
LoopProbeUpTo(n) ==
  /\ pc = "loop"
  /\ cycles < n
  /\ cycles' = cycles + 1
  /\ \E endpoint \in BOOLEAN, probeOk \in BOOLEAN :
       Probe(endpoint, probeOk, "update", "heal_stop", TRUE)
  /\ UNCHANGED << app_path, backup_path, app_process, db_helper, blobs, remote,
                  records, stage, latest_v, ret, cycle0, prev, sup, cmp >>

LoopProbe == LoopProbeUpTo(MaxCycles)

\* line 459
HealStop ==
  /\ pc = "heal_stop"
  /\ Stop("heal_start")
  /\ UNCHANGED << app_path, backup_path, last_healthy_version, db_helper, blobs,
                  remote, records, stage, latest_v, ret, cycle0, cycles, prev, sup, cmp >>

\* line 460
HealStart ==
  /\ pc = "heal_start"
  /\ \E popenOk \in BOOLEAN : Start(popenOk, "heal_probe", "heal_probe")
  /\ UNCHANGED << app_path, backup_path, last_healthy_version, db_helper, blobs,
                  remote, records, stage, latest_v, ret, cycle0, cycles, prev, sup, cmp >>

\* mutant: the backup is restored whatever the second probe says
HealProbe_RestoresAnyway ==
  /\ pc = "heal_probe"
  /\ \E endpoint \in BOOLEAN, probeOk \in BOOLEAN :
       Probe(endpoint, probeOk, "heal_restore", "heal_restore", FALSE)
  /\ UNCHANGED << app_path, backup_path, app_process, db_helper, blobs, remote,
                  records, stage, latest_v, ret, cycle0, cycles, prev, sup, cmp >>

\* line 463
HealProbe ==
  /\ pc = "heal_probe"
  /\ \E endpoint \in BOOLEAN, probeOk \in BOOLEAN :
       Probe(endpoint, probeOk, "update", "heal_restore", FALSE)
  /\ UNCHANGED << app_path, backup_path, app_process, db_helper, blobs, remote,
                  records, stage, latest_v, ret, cycle0, cycles, prev, sup, cmp >>

\* line 465
HealRestore ==
  /\ pc = "heal_restore"
  /\ \E fault \in {"none", "copy"} : Restore(fault, "heal_start2")
  /\ UNCHANGED << backup_path, app_process, last_healthy_version, db_helper,
                  blobs, remote, records, stage, latest_v, ret, cycle0, cycles, prev, sup, cmp >>

\* mutant: after the restore and restart of the self-heal step the iteration
\* goes to the sleep without update_if_available
HealStart2_SkipsUpdate ==
  /\ pc = "heal_start2"
  /\ \E popenOk \in BOOLEAN : Start(popenOk, "sleep", "sleep")
  /\ UNCHANGED << app_path, backup_path, last_healthy_version, db_helper, blobs,
                  remote, records, stage, latest_v, ret, cycle0, cycles, prev, sup, cmp >>

\* line 466
HealStart2 ==
  /\ pc = "heal_start2"
  /\ \E popenOk \in BOOLEAN : Start(popenOk, "update", "update")
  /\ UNCHANGED << app_path, backup_path, last_healthy_version, db_helper, blobs,
                  remote, records, stage, latest_v, ret, cycle0, cycles, prev, sup, cmp >>

(***************************************************************************)
(* update_if_available                                                     *)
(***************************************************************************)
\* mutant: the result of check_for_updates is not looked at
CheckForUpdates_Always ==
  /\ pc = "update"
  /\ \E fetchOk \in BOOLEAN :
       LET r == check_for_updates(_get_current_version(app_path),
                                  _get_latest_version(remote, fetchOk))
       IN /\ calls' = Append(calls, CheckCall(r, fetchOk))
          /\ pc' = IF r = "raise" THEN "sleep" ELSE "started"
          /\ ret' = IF r = "raise" THEN "raised" ELSE "pending"
  /\ cycle0' = Snapshot(Len(calls))
  /\ stage' = "none"
  /\ UNCHANGED << app_path, backup_path, app_process, last_healthy_version,
                  db_helper, blobs, remote, records, latest_v, cycles, prev, sup, cmp >>

\* mutant: the exception of check_for_updates is not caught in the loop and
\* reaches the handler at lines 479-481
CheckForUpdates_Escapes ==
  /\ pc = "update"
  /\ \E fetchOk \in BOOLEAN :
       LET r == check_for_updates(_get_current_version(app_path),
                                  _get_latest_version(remote, fetchOk))
       IN /\ calls' = Append(calls, CheckCall(r, fetchOk))
          /\ pc' = IF r = "True" THEN "started"
                   ELSE IF r = "False" THEN "sleep" ELSE "fatal"
          /\ ret' = IF r = "True" THEN "pending"
                    ELSE IF r = "False" THEN "False" ELSE "raised"
          /\ app_process' = IF r = "raise" THEN stop_application(app_process)
                            ELSE app_process
  /\ cycle0' = Snapshot(Len(calls))
  /\ stage' = "none"
  /\ UNCHANGED << app_path, backup_path, last_healthy_version,
                  db_helper, blobs, remote, records, latest_v, cycles, prev, sup, cmp >>

\* lines 366-368; an exception of check_for_updates leaves update_if_available
\* and is caught by the scheduler (line 471)
CheckForUpdates ==
  /\ pc = "update"
  /\ \E fetchOk \in BOOLEAN :
       LET r == check_for_updates(_get_current_version(app_path),
                                  _get_latest_version(remote, fetchOk))
       IN /\ calls' = Append(calls, CheckCall(r, fetchOk))
          /\ pc' = IF r = "True" THEN "started" ELSE "sleep"
          /\ ret' = IF r = "True" THEN "pending"
                    ELSE IF r = "False" THEN "False" ELSE "raised"
  /\ cycle0' = Snapshot(Len(calls))
  /\ stage' = "none"
  /\ UNCHANGED << app_path, backup_path, app_process, last_healthy_version,
                  db_helper, blobs, remote, records, latest_v, cycles, prev, sup, cmp >>

\* mutant: an exception of the sink leaves log_update_to_db and ends the cycle
LogStarted_SinkEscapes ==
  /\ pc = "started"
  /\ \E fetchOk \in BOOLEAN :
       LET v == VersionOr000(_get_latest_version(remote, fetchOk))
       IN /\ latest_v' = v
          /\ log_update_to_db(v, "started", "none", "none", FALSE)
  /\ calls' = Append(calls, Call("log_update_to_db", "started"))
  /\ pc' = IF db_helper = "raises" THEN "sleep" ELSE "backup"
  /\ ret' = IF db_helper = "raises" THEN "raised" ELSE ret
  /\ UNCHANGED << app_path, backup_path, app_process, last_healthy_version,
                  db_helper, remote, stage, cycle0, cycles, prev, sup, cmp >>

\* lines 373-382: the versions are read again, then the started record; the
\* record before it is at least one sleep of update_interval old
LogStarted ==
  /\ pc = "started"
  /\ \E fetchOk \in BOOLEAN :
       LET v == VersionOr000(_get_latest_version(remote, fetchOk))
       IN /\ latest_v' = v
          /\ log_update_to_db(v, "started", "none", "none", FALSE)
  /\ calls' = Append(calls, Call("log_update_to_db", "started"))
  /\ pc' = "backup"
  /\ UNCHANGED << app_path, backup_path, app_process, last_healthy_version,
                  db_helper, remote, stage, ret, cycle0, cycles, prev, sup, cmp >>

\* mutant: a failed backup does not abort the cycle
Backup_ContinuesOnFailure ==
  /\ pc = "backup"
  /\ \E fault \in {"none", "copy"} :
       LET r == backup_current_application(app_path, backup_path, fault)
       IN /\ backup_path' = r.backup_path
          /\ calls' = Append(calls, Call("backup_current_application", Bool(r.ok)))
          /\ pc' = "stop"
  /\ UNCHANGED << app_path, app_process, last_healthy_version, db_helper, blobs,
                  remote, records, stage, latest_v, ret, cycle0, cycles, prev, sup, cmp >>

\* line 385
Backup ==
  /\ pc = "backup"
  /\ \E fault \in {"none", "copy"} :
       LET r == backup_current_application(app_path, backup_path, fault)
       IN /\ backup_path' = r.backup_path
          /\ calls' = Append(calls, Call("backup_current_application", Bool(r.ok)))
          /\ pc' = IF r.ok THEN "stop" ELSE "backup_failed"
  /\ UNCHANGED << app_path, app_process, last_healthy_version, db_helper, blobs,
                  remote, records, stage, latest_v, ret, cycle0, cycles, prev, sup, cmp >>

\* lines 386-391
BackupFailed ==
  /\ pc = "backup_failed"
  /\ \E sameSecond \in BOOLEAN :
       log_update_to_db(latest_v, "failed", "backup", "none", sameSecond)
  /\ calls' = Append(calls, Call("log_update_to_db", "failed"))
  /\ stage' = "backup"
  /\ ret' = "False"
  /\ pc' = "sleep"
  /\ UNCHANGED << app_path, backup_path, app_process, last_healthy_version,
                  db_helper, remote, latest_v, cycle0, cycles, prev, sup, cmp >>

\* line 394
StopApp ==
  /\ pc = "stop"
  /\ Stop("download")
  /\ UNCHANGED << app_path, backup_path, last_healthy_version, db_helper, blobs,
                  remote, records, stage, latest_v, ret, cycle0, cycles, prev, sup, cmp >>

\* line 397
Download ==
  /\ pc = "download"
  /\ \E failed \in DownloadFaults, moveOk \in BOOLEAN :
       LET r == download_update(app_path, backup_path, remote, failed, moveOk)
       IN /\ app_path' = r.app_path
          /\ backup_path' = r.backup_path
          /\ calls' = Append(calls, DownloadCall(Bool(r.ok), failed))
          /\ pc' = IF r.ok THEN "start" ELSE "rb_restore"
          /\ stage' = IF r.ok THEN stage ELSE "download"
  /\ UNCHANGED << app_process, last_healthy_version, db_helper, blobs, remote,
                  records, latest_v, ret, cycle0, cycles, prev, sup, cmp >>

\* line 409
StartApp ==
  /\ pc = "start"
  /\ \E popenOk \in BOOLEAN : Start(popenOk, "health", "rb_restore")
  /\ stage' = IF pc' = "health" THEN stage ELSE "startup"
  /\ UNCHANGED << app_path, backup_path, last_healthy_version, db_helper, blobs,
                  remote, records, latest_v, ret, cycle0, cycles, prev, sup, cmp >>

\* mutant: the verdict of the post-deploy probe is dropped
HealthCheck_Ignored ==
  /\ pc = "health"
  /\ \E endpoint \in BOOLEAN, probeOk \in BOOLEAN :
       Probe(endpoint, probeOk, "completed", "completed", FALSE)
  /\ UNCHANGED << app_path, backup_path, app_process, db_helper, blobs, remote,
                  records, stage, latest_v, ret, cycle0, cycles, prev, sup, cmp >>

\* line 421
HealthCheck ==
  /\ pc = "health"
  /\ \E endpoint \in BOOLEAN, probeOk \in BOOLEAN :
       Probe(endpoint, probeOk, "completed", "rb_stop", FALSE)
  /\ stage' = IF pc' = "completed" THEN stage ELSE "health_check"
  /\ UNCHANGED << app_path, backup_path, app_process, db_helper, blobs, remote,
                  records, latest_v, ret, cycle0, cycles, prev, sup, cmp >>

\* line 423
RollbackStop ==
  /\ pc = "rb_stop"
  /\ Stop("rb_restore")
  /\ UNCHANGED << app_path, backup_path, last_healthy_version, db_helper, blobs,
                  remote, records, stage, latest_v, ret, cycle0, cycles, prev, sup, cmp >>

\* mutant: a failed restore is attempted a second time
RollbackRestore_Retry ==
  /\ pc = "rb_restore"
  /\ \E fault \in {"none", "copy"} :
       LET r == restore_from_backup(app_path, backup_path, fault)
       IN /\ app_path' = r.app_path
          /\ calls' = Append(calls, Call("restore_from_backup", Bool(r.ok)))
          /\ pc' = IF ~r.ok /\ calls[Len(calls)].op # "restore_from_backup"
                     THEN "rb_restore" ELSE "rb_start"
  /\ UNCHANGED << backup_path, app_process, last_healthy_version, db_helper,
                  blobs, remote, records, stage, latest_v, ret, cycle0, cycles, prev, sup, cmp >>

\* lines 399, 411, 424
RollbackRestore ==
  /\ pc = "rb_restore"
  /\ \E fault \in {"none", "copy"} : Restore(fault, "rb_start")
  /\ UNCHANGED << backup_path, app_process, last_healthy_version, db_helper,
                  blobs, remote, records, stage, latest_v, ret, cycle0, cycles, prev, sup, cmp >>

\* mutant: the rollback does not restart the app
RollbackStart_Skipped ==
  /\ pc = "rb_start"
  /\ pc' = "rb_log"
  /\ UNCHANGED << app_path, backup_path, app_process, last_healthy_version,
                  db_helper, blobs, remote, records, stage, latest_v, ret, calls,
                  cycle0, cycles, prev, sup, cmp >>

\* lines 400, 412, 425
RollbackStart ==
  /\ pc = "rb_start"
  /\ \E popenOk \in BOOLEAN : Start(popenOk, "rb_log", "rb_log")
  /\ UNCHANGED << app_path, backup_path, last_healthy_version, db_helper, blobs,
                  remote, records, stage, latest_v, ret, cycle0, cycles, prev, sup, cmp >>

\* lines 401-406, 413-418, 426-431
RollbackLog ==
  /\ pc = "rb_log"
  /\ \E sameSecond \in BOOLEAN :
       log_update_to_db(latest_v, "failed", stage, "rolled_back", sameSecond)
  /\ calls' = Append(calls, Call("log_update_to_db", "failed"))
  /\ ret' = "False"
  /\ pc' = "sleep"
  /\ UNCHANGED << app_path, backup_path, app_process, last_healthy_version,
                  db_helper, remote, stage, latest_v, cycle0, cycles, prev, sup, cmp >>

\* lines 433-441
LogCompleted ==
  /\ pc = "completed"
  /\ \E sameSecond \in BOOLEAN :
       log_update_to_db(latest_v, "completed", "none", "none", sameSecond)
  /\ calls' = Append(calls, Call("log_update_to_db", "completed"))
  /\ ret' = "True"
  /\ pc' = "sleep"
  /\ UNCHANGED << app_path, backup_path, app_process, last_healthy_version,
                  db_helper, remote, stage, latest_v, cycle0, cycles, prev, sup, cmp >>

\* mutant: the next iteration is triggered by a timer, also while a download
\* is in progress
Sleep_Timer ==
  /\ pc \in {"sleep", "download"}
  /\ pc' = "loop"
  /\ stage' = "none"
  /\ latest_v' = DefaultVersion
  /\ ret' = "none"
  /\ calls' = <<>>
  /\ cycle0' = Snapshot(0)
  /\ prev' = [ret |-> ret, nbackup |-> 0]
  /\ UNCHANGED << app_path, backup_path, app_process, last_healthy_version,
                  db_helper, blobs, remote, records, cycles, sup, cmp >>

\* line 475; update_if_available's locals and the iteration's trace end here
Sleep ==
  /\ pc = "sleep"
  /\ pc' = "loop"
  /\ stage' = "none"
  /\ latest_v' = DefaultVersion
  /\ ret' = "none"
  /\ calls' = <<>>
  /\ cycle0' = Snapshot(0)
  /\ prev' = [ret |-> ret,
              nbackup |-> Cardinality({i \in 1..Len(calls) :
                            calls[i].op = "backup_current_application"})]
  /\ UNCHANGED << app_path, backup_path, app_process, last_healthy_version,
                  db_helper, blobs, remote, records, cycles, sup, cmp >>

\* mutant: the handler of the interrupt returns without stop_application
Interrupt_NoStop ==
  /\ pc \notin {"interrupted", "fatal"}
  /\ pc' = "interrupted"
  /\ UNCHANGED << app_path, backup_path, app_process, last_healthy_version,
                  db_helper, blobs, remote, records, stage, latest_v, ret, calls,
                  cycle0, cycles, prev, sup, cmp >>

\* lines 476-478.  KeyboardInterrupt is not an Exception: it passes the
\* handlers of the operations (lines 155, 178, 215, ...) and of the loop (line
\* 471) and ends run_continuous_updates wherever it arrives.  mid: it arrives
\* inside the operation at pc, after the app directory was removed (line 210,
\* line 174) and before the new one is in place (line 211, line 176).
Interrupt ==
  /\ pc \notin {"interrupted", "fatal"}
  /\ \E mid \in BOOLEAN :
       LET deploying == \/ pc = "download"
                        \/ pc = "boot" /\ ~HasFile(app_path, "application/app.py")
           restoring == pc \in {"heal_restore", "rb_restore"}
           half == IF mid /\ deploying
                     THEN download_update(app_path, backup_path, remote, {}, FALSE)
                   ELSE IF mid /\ restoring
                     THEN [app_path |-> restore_from_backup(app_path, backup_path,
                                                           "copy").app_path,
                           backup_path |-> backup_path]
                   ELSE [app_path |-> app_path, backup_path |-> backup_path]
       IN /\ app_path' = half.app_path
          /\ backup_path' = half.backup_path
  /\ app_process' = stop_application(app_process)
  /\ calls' = Append(calls, Call("stop_application", "None"))
  /\ pc' = "interrupted"
  /\ UNCHANGED << last_healthy_version, db_helper, blobs, remote, records, stage,
                  latest_v, ret, cycle0, cycles, prev, sup, cmp >>

\* the steps of the program inside one iteration
Steps ==
  \/ Boot \/ BootStart
  \/ HealStop \/ HealStart \/ HealProbe \/ HealRestore \/ HealStart2
  \/ CheckForUpdates \/ LogStarted \/ Backup \/ BackupFailed \/ StopApp
  \/ Download \/ StartApp \/ HealthCheck
  \/ RollbackStop \/ RollbackRestore \/ RollbackStart \/ RollbackLog
  \/ LogCompleted \/ Sleep

Next == Steps \/ LoopProbe \/ Interrupt

Spec == Init /\ [][Next]_vars

\* Runs of Iterations scheduler iterations in which no interrupt arrives and
\* the sink was never initialised: the properties that relate one
\* update_if_available to the next are checked on these.
LoopProbe2 == LoopProbeUpTo(Iterations)

Init2 == Init /\ db_helper = "None"

Next2 == Steps \/ LoopProbe2

TwoCycleSpec == Init2 /\ [][Next2]_vars

\* the orchestration runs on one thread that always takes its next step
FairSpec == Spec /\ WF_vars(Next)

(***************************************************************************)
(* The supervisor taken alone: start_application, stop_application and the *)
(* probe applied in any order to an app directory, a handle (0 is None,    *)
(* otherwise the pid of the tracked child) and the set of live children    *)
(***************************************************************************)
SupFiles ==
  {"application/app.py", "application/requirements.txt",
   "application/version.json"}

\* how terminate / wait(5) / kill end (lines 352-360); kill_error is kill()
\* raising inside the TimeoutExpired handler, which leaves stop_application
StopOutcomes == {"graceful", "timeout_kill", "terminate_error", "kill_error"}

\* mutant: an error while terminating leaves the handle in place
StopSteps_KeepsOnError(handle, live, outcome) ==
  IF handle = 0
    THEN [handle |-> 0, live |-> live, steps |-> <<>>, raised |-> FALSE]
  ELSE [handle |-> IF outcome = "terminate_error" THEN handle ELSE 0,
        live |-> IF outcome \in {"graceful", "timeout_kill"}
                   THEN live \ {handle} ELSE live,
        steps |-> << "terminate" >>,
        raised |-> outcome = "kill_error"]

\* mutant: a child that outlives the grace period is left running
StopSteps_NoKill(handle, live, outcome) ==
  IF handle = 0
    THEN [handle |-> 0, live |-> live, steps |-> <<>>, raised |-> FALSE]
  ELSE [handle |-> 0,
        live |-> IF outcome = "graceful" THEN live \ {handle} ELSE live,
        steps |-> IF outcome = "terminate_error" THEN << "terminate" >>
                  ELSE << "terminate", "wait" >>,
        raised |-> FALSE]

\* stop_application, lines 349-362
StopSteps(handle, live, outcome) ==
  IF handle = 0
    THEN [handle |-> 0, live |-> live, steps |-> <<>>, raised |-> FALSE]
  ELSE [handle |-> 0,
        live |-> IF outcome \in {"graceful", "timeout_kill"}
                   THEN live \ {handle} ELSE live,
        steps |-> IF outcome = "graceful" THEN << "terminate", "wait" >>
                  ELSE IF outcome = "terminate_error" THEN << "terminate" >>
                  ELSE << "terminate", "wait", "kill" >>,
        raised |-> outcome = "kill_error"]

\* mutant: the new child is launched without stopping the tracked one
StartSteps_NoStop(files, handle, live, spawned, outcome, popenOk) ==
  IF "application/app.py" \notin files
    THEN [ret |-> FALSE, handle |-> handle, live |-> live, spawned |-> spawned,
          steps |-> <<>>]
  ELSE IF popenOk
    THEN [ret |-> TRUE, handle |-> spawned + 1,
          live |-> live \cup {spawned + 1}, spawned |-> spawned + 1,
          steps |-> << "Popen" >>]
  ELSE [ret |-> FALSE, handle |-> handle, live |-> live, spawned |-> spawned,
        steps |-> << "Popen" >>]

\* mutant: the dependencies are installed before app.py is looked for
StartSteps_InstallsFirst(files, handle, live, spawned, outcome, popenOk) ==
  LET pip == IF "application/requirements.txt" \in files
               THEN << "pip" >> ELSE <<>>
  IN IF "application/app.py" \notin files
       THEN [ret |-> FALSE, handle |-> handle, live |-> live,
             spawned |-> spawned, steps |-> pip]
     ELSE LET st == StopSteps(handle, live, outcome)
          IN IF popenOk /\ ~st.raised
               THEN [ret |-> TRUE, handle |-> spawned + 1,
                     live |-> st.live \cup {spawned + 1},
                     spawned |-> spawned + 1,
                     steps |-> pip \o << "stop_application" >> \o st.steps
                               \o << "Popen" >>]
             ELSE [ret |-> FALSE, handle |-> 0, live |-> st.live,
                   spawned |-> spawned,
                   steps |-> pip \o << "stop_application" >> \o st.steps]

\* start_application, lines 295-347: refusal without app.py (297-301), then
\* stop_application (304), pip when requirements.txt is there (307-339, its
\* failures are logged only), then Popen (342); whatever is raised on the way
\* is caught at line 345 and False is returned
StartSteps(files, handle, live, spawned, outcome, popenOk) ==
  IF "application/app.py" \notin files
    THEN [ret |-> FALSE, handle |-> handle, live |-> live, spawned |-> spawned,
          steps |-> <<>>]
  ELSE LET st == StopSteps(handle, live, outcome)
           pip == IF "application/requirements.txt" \in files
                    THEN << "pip" >> ELSE <<>>
       IN IF st.raised
            THEN [ret |-> FALSE, handle |-> 0, live |-> st.live,
                  spawned |-> spawned,
                  steps |-> << "stop_application" >> \o st.steps]
          ELSE IF popenOk
            THEN [ret |-> TRUE, handle |-> spawned + 1,
                  live |-> st.live \cup {spawned + 1}, spawned |-> spawned + 1,
                  steps |-> << "stop_application" >> \o st.steps \o pip
                            \o << "Popen" >>]
          ELSE [ret |-> FALSE, handle |-> 0, live |-> st.live,
                spawned |-> spawned,
                steps |-> << "stop_application" >> \o st.steps \o pip
                          \o << "Popen" >>]

SupBefore == [handle |-> sup.handle, live |-> sup.live, spawned |-> sup.spawned]

\* the ways terminate/wait/kill can end for the tracked child, if any
StopInputs == IF sup.handle = 0 THEN {"none"} ELSE StopOutcomes

SupStart ==
  /\ \E outcome \in StopInputs, popenOk \in BOOLEAN :
       /\ popenOk => sup.spawned < MaxPids
       /\ LET r == StartSteps(sup.files, sup.handle, sup.live, sup.spawned,
                              outcome, popenOk)
          IN sup' = [sup EXCEPT !.handle = r.handle, !.live = r.live,
                                !.spawned = r.spawned,
                                !.last = [op |-> "start_application",
                                          ret |-> Bool(r.ret), steps |-> r.steps,
                                          outcome |-> outcome, code |-> 0,
                                          before |-> SupBefore]]
  /\ UNCHANGED << main, cmp >>

SupStop ==
  /\ \E outcome \in StopInputs :
       LET r == StopSteps(sup.handle, sup.live, outcome)
       IN sup' = [sup EXCEPT !.handle = r.handle, !.live = r.live,
                             !.last = [op |-> "stop_application",
                                       ret |-> IF r.raised THEN "raised"
                                               ELSE "None",
                                       steps |-> r.steps, outcome |-> outcome,
                                       code |-> 0, before |-> SupBefore]]
  /\ UNCHANGED << main, cmp >>

\* how subprocess.run of healthcheck.py ends (lines 275-277): it exits with a
\* code, it passes the timeout, or it cannot be launched
ProbeOutcomes == {"exit", "timeout", "launch_error"}

\* healthcheck.py looks for a running process of app.py (psutil), tracked or
\* not; its exit code is 0 when the critical checks pass (lines 195-203)
SupProbe ==
  /\ \E endpoint \in BOOLEAN, outcome \in ProbeOutcomes :
       LET app == Dir({<< f, V100 >> : f \in sup.files})
           proc == IF sup.live = {} THEN "None" ELSE "child"
           healthy == perform_health_check(app, proc, endpoint, outcome = "exit")
       IN sup' = [sup EXCEPT !.last =
                    [op |-> "perform_health_check", ret |-> Bool(healthy),
                     steps |-> << "subprocess.run" >>, outcome |-> outcome,
                     code |-> IF run_all_checks(app, proc, endpoint)
                                THEN 0 ELSE 1,
                     before |-> SupBefore]]
  /\ UNCHANGED << main, cmp >>

\* a child ends by itself; the handle, if it is the tracked one, stays
SupChildExit ==
  /\ \E pid \in sup.live :
       sup' = [sup EXCEPT !.live = sup.live \ {pid},
                          !.last = [SupIdle.last EXCEPT !.op = "exit"]]
  /\ UNCHANGED << main, cmp >>

InitSup ==
  /\ Constructed
  /\ app_path = Dir({})
  /\ db_helper = "None"
  /\ remote = V100
  /\ cmp = CmpIdle
  /\ sup \in {[SupIdle EXCEPT !.files = f] : f \in SUBSET SupFiles}

NextSup == SupStart \/ SupStop \/ SupProbe \/ SupChildExit

SupervisorSpec == InitSup /\ [][NextSup]_vars

(***************************************************************************)
(* check_for_updates taken alone, on version texts                         *)
(***************************************************************************)
\* the versions compared: every list of up to MaxLen of these components,
\* and the versions the examples of the specification name
Components == {0, 1, 9, 10}
ListedVersions == { << 1, 2, 3 >>, << 1, 2 >>, << 0, 0, 1 >> }
PartLists == UNION {[1..n -> Components] : n \in 1..MaxLen} \cup ListedVersions

\* texts int() rejects: empty, an empty component, a letter
MalformedTexts == { <<>>, << "1", ".", ".", "2" >>, << "1", ".", "x" >> }

\* a descriptor with, for a well-formed one, the numbers it was written from
CmpInputs ==
  {[d |-> None, parts |-> <<>>]}
    \cup {[d |-> Text(Dotted(parts)), parts |-> parts] : parts \in PartLists}
    \cup {[d |-> Text(m), parts |-> <<>>] : m \in MalformedTexts}

InitCmp ==
  /\ Constructed
  /\ app_path = Dir({})
  /\ db_helper = "None"
  /\ remote = V100
  /\ sup = SupIdle
  /\ \E c \in CmpInputs, l \in CmpInputs :
       cmp = [current |-> c.d, latest |-> l.d, current_parts |-> c.parts,
              latest_parts |-> l.parts, result |-> "none"]

Compare ==
  /\ cmp.result = "none"
  /\ cmp' = [cmp EXCEPT !.result = check_for_updates_text(cmp.current, cmp.latest)]
  /\ UNCHANGED << main, sup >>

NextCmp == Compare

CompareSpec == InitCmp /\ [][NextCmp]_vars

(***************************************************************************)
(* Vocabulary of the properties                                            *)
(***************************************************************************)
\* update_if_available has returned (or raised) and the scheduler sleeps
Returned == pc = "sleep"

\* the calls and the records of the current update_if_available
CycleCalls == SubSeq(calls, cycle0.mark + 1, Len(calls))
CycleRecords == SubSeq(records, cycle0.nrecords + 1, Len(records))

Ops(trace) == [i \in 1..Len(trace) |-> trace[i].op]
ResultsOf(op) ==
  {CycleCalls[i].res : i \in {j \in 1..Len(CycleCalls) : CycleCalls[j].op = op}}
Called(op) == \E i \in 1..Len(CycleCalls) : CycleCalls[i].op = op
CountCalls(op) == Cardinality({i \in 1..Len(CycleCalls) : CycleCalls[i].op = op})

IsRecord(r, status, stg, action) ==
  r.status = status /\ r.stage = stg /\ r.action = action
CountRecords(status, stg, action) ==
  Cardinality({i \in 1..Len(CycleRecords) :
                 IsRecord(CycleRecords[i], status, stg, action)})

\* the backups proper: the entries backup_current_application created
Backups(bp) == SelectSeq(bp, LAMBDA e : e.name = "backup")

\* the cycle met no fault besides the ones a scenario names: every backup,
\* download, restore and start of the cycle returned True
OnlyProbeFailed ==
  /\ ResultsOf("backup_current_application") = {"True"}
  /\ ResultsOf("download_update") = {"True"}
  /\ ResultsOf("start_application") = {"True"}
  /\ ResultsOf("restore_from_backup") = {"True"}
  /\ ResultsOf("perform_health_check") = {"False"}

(***************************************************************************)
(* C1                                                                      *)
(***************************************************************************)
C1_Scenario ==
  /\ Returned
  /\ _get_current_version(cycle0.app_path) = Some(V100)
  /\ remote = V110
  /\ OnlyProbeFailed

\* C1: from deployed 1.0.0 with remote 1.1.0, when backup, download and the
\* starts succeed, the restore meets no fault and the one post-deploy probe
\* fails, then on return of update_if_available the app directory holds the
\* content of the 1.0.0 backup taken in this cycle, a child is tracked, and
\* exactly one failed(stage=health_check, action=rolled_back) record was
\* emitted.
C1_HealthCheckRollback ==
  C1_Scenario =>
    /\ backup_path # <<>>
    /\ LatestEntry(backup_path).name = "backup"
    /\ LatestEntry(backup_path).version = Some(V100)
    /\ LatestEntry(backup_path).files = cycle0.app_path.files
    /\ app_path = Dir(LatestEntry(backup_path).files)
    /\ app_process = "child"
    /\ CountCalls("perform_health_check") = 1
    /\ CountRecords("failed", "health_check", "rolled_back") = 1
    /\ Cardinality({i \in 1..Len(CycleRecords) :
                      CycleRecords[i].status = "failed"}) = 1

C1_Witness ==
  /\ C1_Scenario
  /\ app_path = Dir(Artifact(V100))
  /\ app_process = "child"
  /\ ret = "False"

(***************************************************************************)
(* C2                                                                      *)
(***************************************************************************)
\* C2: in a cycle whose backup succeeded and whose download_update returned
\* False, the rollback restores the snapshot taken in this cycle, so the app
\* directory equals its pre-update content; the app is restarted,
\* failed(stage=download, action=rolled_back) is emitted and the result is
\* False.  (Stated for the rollbacks whose restore_from_backup returned True.)
C2_DownloadRollback ==
  (Returned /\ stage = "download" /\ ResultsOf("restore_from_backup") = {"True"}) =>
    /\ app_path = cycle0.app_path
    /\ Called("start_application")
    /\ CountRecords("failed", "download", "rolled_back") = 1
    /\ ret = "False"

(***************************************************************************)
(* C3                                                                      *)
(***************************************************************************)
LastCall == calls[Len(calls)]

\* C3: when the request of a file fails, at whatever depth of the remote
\* tree, download_update returns False and the app directory is the one it
\* was before the call.
C3_NoPartialDeploy ==
  (/\ calls # <<>>
   /\ LastCall.op = "download_update"
   /\ LastCall.failed \cap RemoteFiles # {}) =>
    /\ LastCall.res = "False"
    /\ pc # "boot_start" => app_path = cycle0.app_path

(***************************************************************************)
(* C4                                                                      *)
(***************************************************************************)
\* C4: in every reachable state the app directory and the most recent
\* backup are not both absent.
C4_AppOrBackupPresent ==
  app_path.exists \/ Backups(backup_path) # <<>>

(***************************************************************************)
(* C5                                                                      *)
(***************************************************************************)
\* C5: every execution of download_update, from update_if_available or from
\* the start-up path, comes after a successful backup_current_application.
C5_BackupBeforeDeploy ==
  \A i \in 1..Len(calls) :
    calls[i].op = "download_update" =>
      \E j \in 1..(i - 1) :
        calls[j].op = "backup_current_application" /\ calls[j].res = "True"

(***************************************************************************)
(* C6                                                                      *)
(***************************************************************************)
C6_Scenario == Returned /\ ResultsOf("backup_current_application") = {"False"}

\* C6: when an update is available and the backup fails, the cycle emits
\* started then failed(stage=backup), returns False, calls neither
\* stop_application, download_update, restore_from_backup nor
\* start_application, and leaves the tracked child and the app directory as
\* they were.
C6_BackupFailureAbort ==
  C6_Scenario =>
    /\ Ops(CycleCalls) = << "check_for_updates", "log_update_to_db",
                            "backup_current_application", "log_update_to_db" >>
    /\ Len(CycleRecords) = 2
    /\ CycleRecords[1].status = "started"
    /\ IsRecord(CycleRecords[2], "failed", "backup", "none")
    /\ ret = "False"
    /\ app_path = cycle0.app_path
    /\ app_process = cycle0.app_process

C6_Witness ==
  /\ C6_Scenario
  /\ app_process = "child"
  /\ HasFile(app_path, "application/app.py")
  /\ Len(backup_path) > Len(cycle0.backup_path)

(***************************************************************************)
(* C7                                                                      *)
(***************************************************************************)
C7_Scenario == Returned /\ ResultsOf("check_for_updates") = {"False"}

\* C7: when check_for_updates reports no update, update_if_available returns
\* False, emits no record, creates no backup and leaves the app directory
\* and the tracked child unchanged.
C7_NoOpCycle ==
  C7_Scenario =>
    /\ ret = "False"
    /\ Ops(CycleCalls) = << "check_for_updates" >>
    /\ CycleRecords = <<>>
    /\ backup_path = cycle0.backup_path
    /\ app_path = cycle0.app_path
    /\ app_process = cycle0.app_process

C7_Witness ==
  /\ C7_Scenario
  /\ app_process = "child"
  /\ _get_current_version(app_path) = Some(V110)

(***************************************************************************)
(* C8                                                                      *)
(***************************************************************************)
RollbackStages == {"download", "startup", "health_check"}

StageCall(stg) ==
  CASE stg = "download" -> "download_update"
    [] stg = "startup" -> "start_application"
    [] stg = "health_check" -> "perform_health_check"
    [] OTHER -> "none"

\* position in CycleCalls of the first stage call that returned False
FirstFailure ==
  LET bad == {i \in 1..Len(CycleCalls) :
                /\ CycleCalls[i].op \in {"download_update", "start_application",
                                         "perform_health_check"}
                /\ CycleCalls[i].res = "False"}
  IN IF bad = {} THEN 0 ELSE CHOOSE i \in bad : \A j \in bad : i <= j

AfterFailure == SubSeq(CycleCalls, FirstFailure + 1, Len(CycleCalls))

C8_Scenario == Returned /\ stage \in RollbackStages

AllStagesPassed ==
  /\ ResultsOf("check_for_updates") = {"True"}
  /\ ResultsOf("backup_current_application") = {"True"}
  /\ ResultsOf("download_update") = {"True"}
  /\ ResultsOf("start_application") = {"True"}
  /\ ResultsOf("perform_health_check") = {"True"}

\* the fault input of the cycle's download_update
CycleDownloadFaults ==
  UNION {CycleCalls[i].failed : i \in 1..Len(CycleCalls)}

TopLevelFiles == {"application/app.py", "application/version.json"}

InUpdate ==
  pc \in {"update", "started", "backup", "backup_failed", "stop", "download",
          "start", "health", "rb_stop", "rb_restore", "rb_start", "rb_log",
          "completed"}

\* restore and restart are each attempted at most once in a rollback, and
\* update_if_available raises only out of check_for_updates
RollbackOnce ==
  /\ ((InUpdate /\ pc # "update") \/ Returned) =>
       /\ CountCalls("restore_from_backup") <= 1
       /\ FirstFailure > 0 =>
            /\ Len(AfterFailure) <= 4
            /\ Cardinality({i \in 1..Len(AfterFailure) :
                              AfterFailure[i].op = "start_application"}) <= 1
  /\ (Returned /\ ret = "raised") => Ops(CycleCalls) = << "check_for_updates" >>

HealthyAtBackup ==
  /\ cycle0.mark > 0
  /\ calls[cycle0.mark].op = "perform_health_check"
  /\ calls[cycle0.mark].res = "True"

\* C11: when a rollback has restored the backup taken in this cycle, that
\* backup is a snapshot of an app that had passed its health probe when it
\* was backed up.
C11_RevertsToKnownGood ==
  (/\ Returned
   /\ stage \in RollbackStages
   /\ ResultsOf("restore_from_backup") = {"True"}
   /\ LatestEntry(backup_path).name = "backup") =>
    HealthyAtBackup

(***************************************************************************)
(* C12                                                                     *)
(***************************************************************************)
\* C12: a restore_from_backup() that returned True has put in the app
\* directory the content of the entry backup_current_application produced
\* last, and of no other entry of the backup directory.
C12_RestoresLatestBackup ==
  (/\ calls # <<>>
   /\ LastCall.op = "restore_from_backup"
   /\ LastCall.res = "True") =>
    /\ Backups(backup_path) # <<>>
    /\ app_path = Dir(Backups(backup_path)[Len(Backups(backup_path))].files)

(***************************************************************************)
(* C13                                                                     *)
(***************************************************************************)
\* C13: a backup_current_application that returned False has left the backup
\* directory as it was: no new entry, partial or not.
C13_FailedBackupLeavesNothing ==
  (/\ calls # <<>>
   /\ LastCall.op = "backup_current_application"
   /\ LastCall.res = "False") =>
    backup_path = cycle0.backup_path

(***************************************************************************)
(* C14                                                                     *)
(***************************************************************************)
\* C14: a restore_from_backup() made while backup_current_application has
\* produced no backup returns False and leaves the app directory as it was.
C14_RestoreWithoutBackups ==
  [][(/\ pc \in {"heal_restore", "rb_restore"}
      /\ Backups(backup_path) = <<>>) =>
       /\ app_path' = app_path
       /\ calls'[Len(calls')].res = "False"]_vars

(***************************************************************************)
(* C15                                                                     *)
(***************************************************************************)
Statuses == {"started", "completed", "failed"}

\* a cycle that found an update has emitted one started record and then one
\* terminal record, and nothing else
C15_CycleShape ==
  /\ \A i \in 1..Len(records) : records[i].status \in Statuses
  /\ (Returned /\ Called("log_update_to_db")) =>
       /\ Len(CycleRecords) = 2
       /\ CycleRecords[1].status = "started"
       /\ CycleRecords[2].status \in {"completed", "failed"}

\* no step changes or removes a record the sink has stored
StoredRecordsKept ==
  /\ Len(blobs') >= Len(blobs)
  /\ \A i \in 1..Len(blobs) : blobs'[i] = blobs[i]

\* C15: every cycle that found an update emits exactly one started record
\* and then exactly one terminal record (completed or failed) and no other,
\* every status is started, completed or failed, and no later operation
\* modifies or removes a record already emitted.
C15_UpdateRecords ==
  [][StoredRecordsKept /\ C15_CycleShape']_vars

(***************************************************************************)
(* C16                                                                     *)
(***************************************************************************)
\* the positions of update_if_available at which log_update_to_db is called
LogPcs == {"started", "backup_failed", "rb_log", "completed"}

\* what a call of log_update_to_db does to the orchestration, sink apart
LogStepEffect ==
  /\ app_path' = app_path
  /\ backup_path' = backup_path
  /\ app_process' = app_process
  /\ db_helper' = db_helper
  /\ pc' = IF pc = "started" THEN "backup" ELSE "sleep"
  /\ ret' = IF pc = "started" THEN ret
            ELSE IF pc = "completed" THEN "True" ELSE "False"

\* C16: whatever the sink does (stores, returns False, raises, was never
\* initialised), a call of log_update_to_db that no interrupt cuts short
\* leaves the app directory, the backups and the tracked child as they
\* were, and the position and the return value that follow it are the ones
\* fixed by the call site alone.
\* db_helper and blobs are read by no other step, so two runs that differ
\* only in the sink agree on these four at every step.
C16_TelemetryNoninterference ==
  [][(pc \in LogPcs /\ pc' # "interrupted") => LogStepEffect]_vars

\* a completed cycle under a sink that raises
C16_Witness ==
  /\ Returned
  /\ db_helper = "raises"
  /\ Len(CycleRecords) = 2
  /\ ret = "True"
  /\ app_path = Dir(Artifact(V110))
  /\ app_process = "child"

(***************************************************************************)
(* C17                                                                     *)
(***************************************************************************)
\* a second update_if_available has returned; the remote version is the
\* same in every iteration of a run
SecondCall == Returned /\ prev.ret # "none"

\* the self-heal step before this update_if_available restored nothing
NoHealRestore ==
  \A i \in 1..cycle0.mark : calls[i].op # "restore_from_backup"

\* C17 as claimed: of two consecutive update_if_available calls with the
\* same remote version, the second produces no backup and the two produce at
\* most one, whatever the first one did.
C17_Idempotence ==
  SecondCall =>
    /\ "True" \notin ResultsOf("backup_current_application")
    /\ prev.nbackup <= 1

\* C17, amended: when the first of two consecutive update_if_available calls
\* returned True, the remote version did not change and the self-heal step
\* between them called no restore_from_backup, the second call makes no
\* backup and emits no record; the two calls made one backup.
C17_IdempotentAfterCompleted ==
  (SecondCall /\ prev.ret = "True" /\ NoHealRestore) =>
    /\ ~Called("backup_current_application")
    /\ CycleRecords = <<>>
    /\ ret # "True"
    /\ prev.nbackup = 1

C17_Witness ==
  /\ SecondCall
  /\ prev.ret = "True"
  /\ NoHealRestore
  /\ app_path = Dir(Artifact(V110))
  /\ Ops(CycleCalls) = << "check_for_updates" >>
  /\ ret = "False"

(***************************************************************************)
(* C18                                                                     *)
(***************************************************************************)
\* C18: an exception raised inside an iteration never ends
\* run_continuous_updates through its handler at lines 479-481; the iteration
\* it was raised in goes on to the sleep, and after the sleep the next
\* iteration starts.
C18_SchedulerResilience ==
  /\ pc # "fatal"
  /\ ret = "raised" => (pc = "sleep" /\ ENABLED Sleep)
  /\ (prev.ret = "raised" /\ pc = "loop" /\ cycles < Iterations) =>
       ENABLED LoopProbe2

\* the iteration after one that raised has reached its update step
C18_Witness ==
  /\ prev.ret = "raised"
  /\ cycles = 2
  /\ pc = "update"

(***************************************************************************)
(* C19                                                                     *)
(***************************************************************************)
\* C19: run_continuous_updates never ends on an interrupt while an update is
\* in flight, that is after update_if_available has found an update and
\* before it has reached its terminal record; in particular never with the
\* app directory changed by an update that has not reached that record.
C19_CooperativeCancellation ==
  pc = "interrupted" => ~(ret = "pending" /\ app_path # cycle0.app_path)

(***************************************************************************)
(* C20                                                                     *)
(***************************************************************************)
\* C20: when run_continuous_updates has ended on an interrupt, wherever it
\* arrived, stop_application was the last operation executed and no child
\* handle is tracked.
C20_StopOnCancellation ==
  pc = "interrupted" =>
    /\ calls # <<>>
    /\ LastCall.op = "stop_application"
    /\ app_process = "None"

\* the interrupt arrived right after a child was started
C20_Witness ==
  /\ pc = "interrupted"
  /\ Len(calls) >= 2
  /\ calls[Len(calls) - 1].op = "start_application"
  /\ calls[Len(calls) - 1].res = "True"
  /\ app_process = "None"

(***************************************************************************)
(* C21                                                                     *)
(***************************************************************************)
\* the calls of the self-heal step of this iteration
HealCalls == SubSeq(calls, 1, cycle0.mark)

\* the three ways through the self-heal step (lines 457-466)
HealShapes ==
  { << "perform_health_check" >>,
    << "perform_health_check", "stop_application", "start_application",
       "perform_health_check" >>,
    << "perform_health_check", "stop_application", "start_application",
       "perform_health_check", "restore_from_backup", "start_application" >> }

OutsidePcs ==
  {"boot", "boot_start", "loop", "heal_stop", "heal_start", "heal_probe",
   "heal_restore", "heal_start2"}

\* the positions of update_if_available after the started record
TransactionPcs ==
  {"backup", "backup_failed", "stop", "download", "start", "health", "rb_stop",
   "rb_restore", "rb_start", "rb_log", "completed"}

\* an update transaction is open: started was emitted, no terminal record yet
TransactionOpen ==
  records # <<>> /\ records[Len(records)].status = "started"

StepAt(name) ==
  IF \E i \in 1..Len(sup.last.steps) : sup.last.steps[i] = name
    THEN CHOOSE i \in 1..Len(sup.last.steps) : sup.last.steps[i] = name
    ELSE 0

RestartedTracked ==
  /\ sup.last.op = "start_application"
  /\ sup.last.before.handle # 0
  /\ "application/app.py" \in sup.files

C24_RefusesWithoutEntryPoint ==
  (sup.last.op = "start_application" /\ "application/app.py" \notin sup.files) =>
    /\ sup.last.ret = "False"
    /\ sup.last.steps = <<>>
    /\ SupBefore = sup.last.before

\* refused with a requirements file present
C24_Witness ==
  /\ sup.last.op = "start_application"
  /\ sup.files = {"application/requirements.txt", "application/version.json"}
  /\ sup.last.ret = "False"

(***************************************************************************)
(* C25                                                                     *)
(***************************************************************************)
\* C25: after stop_application the handle is None, however terminate, wait
\* and kill ended; without a tracked child it does nothing and raises
\* nothing.
C25_StopClearsHandle ==
  sup.last.op = "stop_application" =>
    /\ sup.handle = 0
    /\ sup.last.before.handle = 0 =>
         /\ sup.last.steps = <<>>
         /\ sup.last.ret = "None"
         /\ sup.live = sup.last.before.live

\* the tracked child could not be terminated
C25_Witness ==
  /\ sup.last.op = "stop_application"
  /\ sup.last.before.handle = 1
  /\ sup.last.outcome = "terminate_error"
  /\ sup.handle = 0
  /\ 1 \in sup.live

(***************************************************************************)
(* C26                                                                     *)
(***************************************************************************)
\* C26: perform_health_check returns True exactly when the probe process
\* exits, within the timeout, with code 0; on a timeout, another exit code
\* or a probe that cannot be launched it returns False; it raises nothing.
C26_ProbeVerdict ==
  sup.last.op = "perform_health_check" =>
    /\ sup.last.ret \in {"True", "False"}
    /\ sup.last.ret = "True" <=>
         (sup.last.outcome = "exit" /\ sup.last.code = 0)

\* the checks would pass but the probe timed out
C26_Witness ==
  /\ sup.last.op = "perform_health_check"
  /\ sup.last.outcome = "timeout"
  /\ sup.last.code = 0
  /\ sup.last.ret = "False"

(***************************************************************************)
(* C27                                                                     *)
(***************************************************************************)
Compared == cmp.result # "none"

\* C27 as claimed: with the current descriptor absent check_for_updates
\* returns True, whatever the latest descriptor is.
C27_AbsentCurrent ==
  (Compared /\ ~cmp.current.present) => cmp.result = "True"

\* C27, amended: with the current descriptor absent and a latest descriptor
\* fetched, whatever its version text, check_for_updates returns True.
C27_AbsentCurrentFetchedLatest ==
  (Compared /\ ~cmp.current.present /\ cmp.latest.present) =>
    cmp.result = "True"

\* bootstrap against a latest descriptor whose version int() rejects
C27_Witness ==
  /\ Compared
  /\ ~cmp.current.present
  /\ cmp.latest = Text(<< "1", ".", "x" >>)
  /\ cmp.result = "True"

(***************************************************************************)
(* C29                                                                     *)
(***************************************************************************)
Padded(parts, i) == IF i <= Len(parts) THEN parts[i] ELSE 0

\* latest is greater than current at the first component where they differ
NewerThan(latest, current) ==
  LET n == IF Len(latest) > Len(current) THEN Len(latest) ELSE Len(current)
  IN \E k \in 1..n :
       /\ Padded(latest, k) > Padded(current, k)
       /\ \A j \in 1..(k - 1) : Padded(latest, j) = Padded(current, j)

\* both descriptors are present and written from lists of numbers
WellFormedPair ==
  /\ cmp.current.present /\ cmp.current_parts # <<>>
  /\ cmp.latest.present /\ cmp.latest_parts # <<>>

\* C29: on two dotted texts of non-negative integers check_for_updates
\* returns True when latest is greater than current at the first differing
\* component, missing trailing components counting as 0, and False
\* otherwise; equal versions give False.
C29_ComponentWise ==
  (Compared /\ WellFormedPair) =>
    /\ cmp.result \in {"True", "False"}
    /\ cmp.result = "True" <=> NewerThan(cmp.latest_parts, cmp.current_parts)
    /\ cmp.current_parts = cmp.latest_parts => cmp.result = "False"

\* compare("1.2.3", "1.2")
C29_Witness ==
  /\ Compared
  /\ cmp.current = Text(<< "1", ".", "2", ".", "3" >>)
  /\ cmp.latest = Text(<< "1", ".", "2" >>)
  /\ cmp.result = "False"

(***************************************************************************)
(* C30                                                                     *)
(***************************************************************************)
Text_1_10_0 == Text(<< "1", ".", "1", "0", ".", "0" >>)
Text_1_9_9 == Text(<< "1", ".", "9", ".", "9" >>)

\* C30 as claimed: with current "1.10.0" and latest "1.9.9"
\* check_for_updates reports an update.
C30_ListedExample ==
  (Compared /\ cmp.current = Text_1_10_0 /\ cmp.latest = Text_1_9_9) =>
    cmp.result = "True"

\* C30, amended: with current "1.10.0" and latest "1.9.9" check_for_updates
\* reports no update, 10 being greater than 9; with current "1.9.9" and
\* latest "1.10.0" it reports an update.
C30_NumericComponents ==
  /\ (Compared /\ cmp.current = Text_1_10_0 /\ cmp.latest = Text_1_9_9) =>
       cmp.result = "False"
  /\ (Compared /\ cmp.current = Text_1_9_9 /\ cmp.latest = Text_1_10_0) =>
       cmp.result = "True"

C30_Witness ==
  /\ cmp.current = Text_1_10_0
  /\ cmp.latest = Text_1_9_9
  /\ cmp.result = "False"

(***************************************************************************)
(* C28                                                                     *)
(***************************************************************************)
\* the request for the remote version failed in call i of this iteration
FetchFailedAt(i) ==
  calls[i].op = "check_for_updates" /\ calls[i].failed # {}

\* C28: a check_for_updates whose request for the latest version failed
\* returns False whatever the current descriptor is, and the
\* update_if_available it belongs to does nothing more: no record, no
\* backup, no other operation.
C28_FailedFetchNoUpdate ==
  \A i \in 1..Len(calls) :
    FetchFailedAt(i) =>
      /\ calls[i].res = "False"
      /\ Len(records) = cycle0.nrecords
      /\ backup_path = cycle0.backup_path
      /\ \A j \in (i + 1)..Len(calls) :
           pc = "interrupted" /\ calls[j].op = "stop_application"

\* the fetch failed while no current descriptor was there
C28_Witness ==
  /\ Returned
  /\ FetchFailedAt(Len(calls))
  /\ ~_get_current_version(app_path).present
  /\ ret = "False"

(***************************************************************************)
(* C31                                                                     *)
(***************************************************************************)
\* C31: no public operation lets an error out: every call of the trace has
\* returned a value and update_if_available has returned True or False,
\* whatever the files, the faults and the version string of the remote
\* version.json.
C31_NoErrorCrossesBoundary ==
  /\ \A i \in 1..Len(calls) : calls[i].res # "raise"
  /\ ret # "raised"

(***************************************************************************)
(* C32                                                                     *)
(***************************************************************************)
\* the positions inside the self-heal step, and those after it
HealPcs == {"heal_stop", "heal_start", "heal_probe", "heal_restore", "heal_start2"}
AfterHealPcs == {"update", "started", "sleep"} \cup TransactionPcs

\* the calls the self-heal step of this iteration has made so far
HealSoFar ==
  IF pc \in HealPcs \cup {"update"} THEN calls
  ELSE IF pc \in AfterHealPcs THEN HealCalls
  ELSE <<>>

IsPrefix(s, t) == Len(s) <= Len(t) /\ s = SubSeq(t, 1, Len(s))

CountOp(trace, op) == Cardinality({i \in 1..Len(trace) : trace[i].op = op})

StoppedTracked ==
  sup.last.op = "stop_application" /\ sup.last.before.handle # 0

\* C33: stop_application with a tracked child calls terminate first, then
\* waits; kill is called exactly when the wait ran into its timeout, after
\* the wait; and when stop_application has returned after such a timeout the
\* child it tracked is not alive.
C33_GracefulThenKill ==
  StoppedTracked =>
    /\ StepAt("terminate") = 1
    /\ sup.last.outcome # "terminate_error" => StepAt("wait") = 2
    /\ StepAt("kill") # 0 <=> sup.last.outcome \in {"timeout_kill", "kill_error"}
    /\ StepAt("kill") # 0 => StepAt("kill") = 3
    /\ (sup.last.outcome = "timeout_kill" /\ sup.last.ret = "None") =>
         sup.last.before.handle \notin sup.live

\* a live tracked child outlived the grace period and was killed
C33_Witness ==
  /\ StoppedTracked
  /\ sup.last.before.handle \in sup.last.before.live
  /\ sup.last.outcome = "timeout_kill"
  /\ sup.last.steps = << "terminate", "wait", "kill" >>
  /\ sup.last.ret = "None"
  /\ sup.handle = 0

(***************************************************************************)
(* C34                                                                     *)
(***************************************************************************)
\* the last operation was a download_update that returned True
Deployed ==
  calls # <<>> /\ LastCall.op = "download_update" /\ LastCall.res = "True"

\* what the requests of one download_update bring in, given those that fail
FetchedBy(failed) == FetchItems(Listing["application"], 1, failed, remote).files

\* the staging directories in the backup directory
Staging(bp) == SelectSeq(bp, LAMBDA e : e.name = "temp_download")

\* C34: the artifact a successful download_update swaps into the app
\* directory is made of the files that very call fetched and of nothing
\* else, whatever an earlier failed attempt left in the staging directory;
\* no staging directory is left behind.
C34_StagingDiscarded ==
  Deployed =>
    /\ app_path = Dir(FetchedBy(LastCall.failed))
    /\ Staging(backup_path) = <<>>

\* update_if_available was entered with a staging directory left by a failed
\* attempt, holding a file the successful download did not fetch
C34_Witness ==
  /\ Deployed
  /\ pc = "start"
  /\ Staging(cycle0.backup_path) # <<>>
  /\ \E e \in Staging(cycle0.backup_path)[1].files : e \notin app_path.files

(***************************************************************************)
(* C35                                                                     *)
(***************************************************************************)
\* C35: the records of one update cycle carry the version check_for_updates
\* compared, the one the remote source serves, and the files a download of
\* that cycle deployed are of that version, also when a fetch of the remote
\* version.json fails after the check.
C35_OneTargetVersion ==
  /\ \A i \in 1..Len(CycleRecords) : CycleRecords[i].version = remote
  /\ (pc \in {"start", "health", "completed"} /\ Deployed) =>
       \A e \in app_path.files : e[2] = CycleRecords[1].version

(***************************************************************************)
(* C36                                                                     *)
(***************************************************************************)
\* C36: whatever start_application and stop_application calls were made and
\* however they ended, at most one child launched by the updater is alive,
\* and a child that is alive is the one the handle refers to.
C36_NoOrphanedChild ==
  /\ Cardinality(sup.live) <= 1
  /\ sup.live \subseteq {sup.handle}

(***************************************************************************)
(* C37                                                                     *)
(***************************************************************************)
\* update_if_available was entered with a tracked child and its backup
\* succeeded
PastBackupWithChild ==
  /\ cycle0.app_process # "None"
  /\ "True" \in ResultsOf("backup_current_application")

\* C37: an update_if_available entered with a tracked child that got past
\* its backup returns with a tracked child, whether it completed or rolled
\* back.
C37_ChildAcrossCycle ==
  (Returned /\ PastBackupWithChild) => app_process # "None"

====
